---- MODULE Spec2Model ----
(***************************************************************************)
(* Workout store of the gym tracker (src/src/components/GymTracker.js):   *)
(* the in-memory collection `workouts`, its mutations, the debounced,     *)
(* deletion and periodic saves, and the IndexedDB object store mirroring  *)
(* it.                                                                    *)
(*                                                                        *)
(* Time is kept relative: every pending timer holds the milliseconds left *)
(* until it fires, and Date.now() - lastSaveTime.current is kept as the   *)
(* elapsed time `sinceLastSave`.  A record is [id, sets]; date, bodyPart  *)
(* and timestamp are written once by addWorkout and never read by the     *)
(* store or the scheduler.  An id is compared by equality only, so ids    *)
(* are drawn from a pool instead of being computed as a number.           *)
(*                                                                        *)
(* IndexedDB: open requests and readwrite transactions on one object      *)
(* store are served in the order they were issued, so the outstanding     *)
(* operations form the queue `inflight`; a transaction commits as a whole *)
(* or aborts and is rolled back.                                          *)
(*                                                                        *)
(* Timers fire at their deadline: time advances to the next deadline, or  *)
(* by UserStep while a debounce or removeWorkout timeout is pending, so   *)
(* that user actions fall between the deadlines of a burst.  The buttons  *)
(* of a record exist while the record is displayed, so increment,         *)
(* decrement and remove are called with ids of the collection.  Reload    *)
(* starts a new session over the object store the last one left behind.   *)
(***************************************************************************)
EXTENDS Integers, Sequences, FiniteSets, TLC

\* ---------------------------------------------------------------- bounds
MaxId == 2          \* size of the id pool
MaxRecords == 2     \* longest in-memory collection explored
MaxSets == 2        \* incrementSets is explored up to this set count
MaxInflight == 2    \* outstanding IndexedDB operations explored
MaxTimeouts == 1    \* pending removeWorkout timeouts explored
UserStep == 100     \* the user's pause inside a burst, in ms
MaxOps == 2         \* user actions explored
MaxDay == 2         \* days on which the calendar functions are applied
MaxTotal == 60      \* largest total of sets whose level is computed
MaxList == 3        \* longest list whose sets are counted
MaxOffset == 7      \* record dates lie this many days around the reference Monday

\* ------------------------------------------------------ program constants
DebounceDelay == 500          \* setTimeout(..., 500)
FadeDelay == 150              \* setTimeout(..., 150) in removeWorkout
DeleteSaveDelay == 100        \* setTimeout(..., 100) in removeWorkout
StatusDelay == 2000           \* setTimeout(() => setBackupStatus(''), 2000)
AutoBackupPeriod == 300000    \* 5 * 60 * 1000
AutoBackupThreshold == 120000 \* 2 * 60 * 1000
Level2Sets == 10              \* sets >= 10: Intermediate
Level3Sets == 20              \* sets >= 20: Advanced
Level4Sets == 30              \* sets >= 30: Expert
Level5Sets == 50              \* sets >= 50: Master
MsPerMinute == 60000          \* Math.floor(diffMs / 60000)
RecentDays == 7               \* sevenDaysAgo.setDate(today.getDate() - 7)

Ids == 1..MaxId

VARIABLES
    mounted,         \* the component's effects have run
    workouts,        \* useState([]): sequence of records
    isInitialMount,  \* useRef(true)
    sinceLastSave,   \* Date.now() - lastSaveTime.current, saturated
    debounce,        \* the debounced save effect's timeout
    interval,        \* the auto backup effect's interval
    timeouts,        \* the other pending setTimeout callbacks, oldest first
    inflight,        \* outstanding IndexedDB operations, oldest first
    store,           \* the object store 'workouts': a set of records keyed by id
    backupStatus,    \* useState('')
    statusTimers,    \* pending setTimeout(() => setBackupStatus(''), 2000): ms left of each
    sameMs,          \* ids generated while Date.now() has not changed
    cleared,         \* history: clearAllWorkouts has succeeded and addWorkout has not been called since
    alert,           \* the text of the open window.alert box, "" when none is open
    ops,             \* history: the number of user actions so far
    last,            \* history: the step taken last
    input,           \* the arguments of a call of one of the component's pure functions
    output           \* what that call has returned, NoOutput before the call

\* the component and its store
component == <<mounted, workouts, isInitialMount, sinceLastSave, debounce, interval,
               timeouts, inflight, store, backupStatus, statusTimers, sameMs, cleared, alert,
               ops, last>>

\* a call of a pure function
pure == <<input, output>>

vars == <<component, pure>>

NoInput == <<>>

NoOutput == [fn |-> "none"]

\* ---------------------------------------------------------------- helpers
Rec(id, sets) == [id |-> id, sets |-> sets]

RecordSet(s) == {s[i] : i \in DOMAIN s}

IdsOf(s) == {s[i].id : i \in DOMAIN s}

Min(S) == CHOOSE x \in S : \A y \in S : x <= y

NoTimer == [rem |-> -1, data |-> <<>>]

Timeout(kind, rem, data, id) == [kind |-> kind, rem |-> rem, data |-> data, id |-> id]

\* history of one step: the handler, the id it was about, and a fact about the
\* state it started from
Event(op, id, info) == [op |-> op, id |-> id, info |-> info]

RemoveAt(s, i) == SubSeq(s, 1, i - 1) \o SubSeq(s, i + 1, Len(s))

\* faulty variant: every save asks for the status message
SaveOpLoud(data, showStatus, id) ==
    [kind |-> "save", data |-> data, showStatus |-> TRUE, id |-> id]

SaveOp(data, showStatus, id) ==
    [kind |-> "save", data |-> data, showStatus |-> showStatus, id |-> id]

LoadOp == [kind |-> "load", data |-> <<>>, showStatus |-> FALSE, id |-> 0]

ClearOp == [kind |-> "clear", data |-> <<>>, showStatus |-> FALSE, id |-> 0]

\* ------------------------------------------------------- the object store
\* faulty variant: the clear is left out
StoreClearKeep(contents) == contents

\* store.clear()
StoreClear(contents) == {}

\* data.forEach(workout => store.add(workout)): add fails on an existing key
RECURSIVE StoreAddAll(_, _)
StoreAddAll(contents, data) ==
    IF data = <<>> THEN [ok |-> TRUE, contents |-> contents]
    ELSE IF \E r \in contents : r.id = Head(data).id
         THEN [ok |-> FALSE, contents |-> contents]
         ELSE StoreAddAll(contents \cup {Head(data)}, Tail(data))

\* the requests of saveToIndexedDB's transaction, run on the store's contents
SaveTransaction(contents, data) == StoreAddAll(StoreClear(contents), data)

\* faulty variant: clear and adds written through, nothing rolled back
TransactionAbortPartial(before, working) == working

\* an aborted transaction is rolled back: the store keeps what it held before
TransactionAbort(before, working) == before

\* store.getAll(): every record, in ascending key order
RECURSIVE GetAll(_)
GetAll(contents) ==
    IF contents = {} THEN <<>>
    ELSE LET r == CHOOSE x \in contents : \A y \in contents : x.id <= y.id
         IN <<r>> \o GetAll(contents \ {r})

\* ------------------------------------------------------------ the effects
\* faulty variant: the cleanup is missing, a pending timeout stays as it is
DebounceEffectNoRestart(w, initial) ==
    IF initial THEN NoTimer
    ELSE IF debounce.rem >= 0 THEN debounce ELSE [rem |-> DebounceDelay, data |-> w]

\* the debounced save effect, run after a render with collection w
DebounceEffect(w, initial) ==
    IF initial THEN NoTimer ELSE [rem |-> DebounceDelay, data |-> w]

\* the auto backup effect, run after a render with collection w
IntervalEffect(w) == [rem |-> AutoBackupPeriod, data |-> w]

\* faulty variant: the effects do not depend on workouts
SetWorkoutsSilent(w) ==
    /\ workouts' = w
    /\ UNCHANGED <<debounce, interval, isInitialMount>>

\* setWorkouts(w) with a new array, the render and the two effects that follow
SetWorkouts(w) ==
    /\ workouts' = w
    /\ debounce' = DebounceEffect(w, isInitialMount)
    /\ interval' = IntervalEffect(w)
    /\ isInitialMount' = FALSE

\* faulty variant: the save reads the live collection instead of its argument
SaveToIndexedDBLive(data, showStatus, id) ==
    /\ Len(inflight) < MaxInflight
    /\ sinceLastSave' = 0
    /\ inflight' = Append(inflight, SaveOp(workouts, showStatus, id))

\* saveToIndexedDB(data, showStatus), up to the await
SaveToIndexedDB(data, showStatus, id) ==
    /\ Len(inflight) < MaxInflight
    /\ sinceLastSave' = 0
    /\ inflight' = Append(inflight, SaveOp(data, showStatus, id))

\* window.alert is modal: no handler runs while the box is open, and only
\* the error paths of clearAllWorkouts open one
NoAlert == alert = "" /\ alert' = ""

ClearErrorMessage == "Error clearing data. Please try again."

\* one more user action within the explored budget
UserAction == ops < MaxOps /\ ops' = ops + 1

\* ------------------------------------------------------------------- ids
UsedIds ==
    IdsOf(workouts) \cup {r.id : r \in store} \cup {timeouts[i].id : i \in DOMAIN timeouts}
    \cup UNION {IdsOf(timeouts[i].data) : i \in DOMAIN timeouts}
    \cup UNION {IdsOf(inflight[i].data) : i \in DOMAIN inflight}
    \cup IdsOf(debounce.data) \cup sameMs

\* Date.now() + Math.random(): a value no earlier call returned, or the value
\* of another call made within the same millisecond
GeneratedIds ==
    (IF Ids \ UsedIds = {} THEN {} ELSE {Min(Ids \ UsedIds)}) \cup sameMs

\* ------------------------------------------------------------------ Init
\* what an earlier session may have left in the object store
InitStores == {{}, {Rec(1, 1)}}

InitComponent ==
    /\ mounted = FALSE
    /\ workouts = <<>>
    /\ isInitialMount = TRUE
    /\ sinceLastSave = AutoBackupThreshold + 1
    /\ debounce = NoTimer
    /\ interval = NoTimer
    /\ timeouts = <<>>
    /\ inflight = <<>>
    /\ store \in InitStores
    /\ backupStatus = ""
    /\ statusTimers = {}
    /\ sameMs = {}
    /\ cleared = FALSE
    /\ ops = 0
    /\ alert = ""
    /\ last = Event("init", 0, 0)

Init ==
    /\ InitComponent
    /\ input = NoInput
    /\ output = NoOutput

\* --------------------------------------------------------------- actions
\* first render: the load effect, the auto backup effect, the debounce effect
Mount ==
    /\ UNCHANGED <<pure, cleared>>
    /\ NoAlert
    /\ ~mounted
    /\ mounted' = TRUE
    /\ inflight' = Append(inflight, LoadOp)
    /\ interval' = IntervalEffect(workouts)
    /\ debounce' = DebounceEffect(workouts, isInitialMount)
    /\ isInitialMount' = FALSE
    /\ last' = Event("mount", 0, 0)
    /\ UNCHANGED <<workouts, sinceLastSave, timeouts, store, backupStatus, statusTimers,
                   sameMs, ops>>

AddWorkout ==
    /\ UNCHANGED pure
    /\ NoAlert
    /\ mounted
    /\ Len(workouts) < MaxRecords
    /\ \E id \in GeneratedIds :
        /\ SetWorkouts(Append(workouts, Rec(id, 1)))
        /\ sameMs' = sameMs \cup {id}
        /\ cleared' = FALSE
        /\ last' = Event("addWorkout", id, debounce.rem)
    /\ UserAction
    /\ UNCHANGED <<mounted, sinceLastSave, timeouts, inflight, store, backupStatus, statusTimers>>

\* faulty variant: the id test is missing
IncrementedSetsAll(w, id) ==
    [i \in DOMAIN w |-> [w[i] EXCEPT !.sets = w[i].sets + 1]]

\* workouts.map(workout => workout.id === id ? {...workout, sets: (workout.sets || 1) + 1} : workout)
IncrementedSets(w, id) ==
    [i \in DOMAIN w |-> IF w[i].id = id THEN [w[i] EXCEPT !.sets = w[i].sets + 1] ELSE w[i]]

IncrementSets(id) ==
    /\ UNCHANGED <<pure, cleared>>
    /\ NoAlert
    /\ mounted
    /\ \A i \in DOMAIN workouts : workouts[i].id = id => workouts[i].sets < MaxSets
    /\ SetWorkouts(IncrementedSets(workouts, id))
    /\ UserAction
    /\ last' = Event("incrementSets", id, debounce.rem)
    /\ UNCHANGED <<mounted, sinceLastSave, timeouts, inflight, store, backupStatus, statusTimers, sameMs>>

\* faulty variant: the floor test is missing
DecrementedSetsNoFloor(w, id) ==
    [i \in DOMAIN w |-> IF w[i].id = id THEN [w[i] EXCEPT !.sets = w[i].sets - 1] ELSE w[i]]

DecrementedSets(w, id) ==
    [i \in DOMAIN w |->
        IF w[i].id = id /\ w[i].sets > 1 THEN [w[i] EXCEPT !.sets = w[i].sets - 1] ELSE w[i]]

DecrementSets(id) ==
    /\ UNCHANGED <<pure, cleared>>
    /\ NoAlert
    /\ mounted
    /\ SetWorkouts(DecrementedSets(workouts, id))
    /\ UserAction
    /\ last' = Event("decrementSets", id, debounce.rem)
    /\ UNCHANGED <<mounted, sinceLastSave, timeouts, inflight, store, backupStatus, statusTimers, sameMs>>

\* removeWorkout(id), up to its setTimeout(..., 150)
RemoveWorkout(id) ==
    /\ UNCHANGED <<pure, cleared>>
    /\ NoAlert
    /\ mounted
    /\ Len(timeouts) < MaxTimeouts
    /\ timeouts' = Append(timeouts, Timeout("fade", FadeDelay, <<>>, id))
    /\ UserAction
    /\ last' = Event("removeWorkout", id, 0)
    /\ UNCHANGED <<mounted, workouts, isInitialMount, sinceLastSave, debounce, interval,
                   inflight, store, backupStatus, statusTimers, sameMs>>

\* faulty variant: the filter keeps the record instead of dropping it
FilteredWrong(w, id) == SelectSeq(w, LAMBDA r : r.id = id)

\* prevWorkouts.filter(workout => workout.id !== id)
Filtered(w, id) == SelectSeq(w, LAMBDA r : r.id # id)

\* timeouts fire in the order of their deadlines, then of their creation
Due(i) ==
    /\ i \in DOMAIN timeouts
    /\ timeouts[i].rem = 0
    /\ \A j \in 1..(i - 1) : timeouts[j].rem # 0

\* the 150 ms callback of removeWorkout: the updater and its setTimeout(..., 100)
FadeFire ==
    /\ UNCHANGED <<pure, cleared>>
    /\ NoAlert
    /\ \E i \in DOMAIN timeouts :
        /\ Due(i)
        /\ timeouts[i].kind = "fade"
        /\ LET id == timeouts[i].id
               updatedWorkouts == Filtered(workouts, id)
           IN /\ SetWorkouts(updatedWorkouts)
              /\ timeouts' = Append(RemoveAt(timeouts, i),
                                    Timeout("deleteSave", DeleteSaveDelay, updatedWorkouts, id))
              /\ last' = Event("fade", id, Len(workouts) - Len(updatedWorkouts))
        /\ UNCHANGED <<mounted, sinceLastSave, inflight, store, backupStatus, statusTimers,
                       sameMs, ops>>

\* the 100 ms callback of removeWorkout: saveToIndexedDB(updatedWorkouts, true)
DeleteSaveFire ==
    /\ UNCHANGED <<pure, cleared>>
    /\ NoAlert
    /\ \E i \in DOMAIN timeouts :
        /\ Due(i)
        /\ timeouts[i].kind = "deleteSave"
        /\ SaveToIndexedDB(timeouts[i].data, TRUE, timeouts[i].id)
        /\ timeouts' = RemoveAt(timeouts, i)
        /\ last' = Event("deleteSave", timeouts[i].id, 0)
        /\ UNCHANGED <<mounted, workouts, isInitialMount, debounce, interval, store,
                       backupStatus, statusTimers, sameMs, ops>>

\* the 500 ms callback of the debounced save effect
DebounceFire ==
    /\ UNCHANGED <<pure, cleared>>
    /\ NoAlert
    /\ debounce.rem = 0
    /\ SaveToIndexedDB(debounce.data, FALSE, 0)
    /\ debounce' = NoTimer
    /\ last' = Event("debounceSave", 0, 0)
    /\ UNCHANGED <<mounted, workouts, isInitialMount, interval, timeouts, store,
                   backupStatus, statusTimers, sameMs, ops>>

\* the 5 min callback of the auto backup effect
IntervalFire ==
    /\ UNCHANGED <<pure, cleared>>
    /\ NoAlert
    /\ interval.rem = 0
    /\ IF sinceLastSave > AutoBackupThreshold
       THEN /\ SaveToIndexedDB(interval.data, FALSE, 0)
            /\ last' = Event("autoBackup", 0, 0)
       ELSE /\ UNCHANGED <<sinceLastSave, inflight>>
            /\ last' = Event("autoBackupSkipped", 0, 0)
    /\ interval' = [interval EXCEPT !.rem = AutoBackupPeriod]
    /\ UNCHANGED <<mounted, workouts, isInitialMount, debounce, timeouts, store,
                   backupStatus, statusTimers, sameMs, ops>>

\* setTimeout(() => setBackupStatus(''), 2000)
StatusClearFire ==
    /\ UNCHANGED <<pure, cleared>>
    /\ NoAlert
    /\ 0 \in statusTimers
    /\ statusTimers' = statusTimers \ {0}
    /\ backupStatus' = ""
    /\ last' = Event("statusClear", 0, 0)
    /\ UNCHANGED <<mounted, workouts, isInitialMount, sinceLastSave, debounce, interval,
                   timeouts, inflight, store, sameMs, ops>>

\* clearAllWorkouts, up to the await
ClearAllWorkouts ==
    /\ UNCHANGED <<pure, cleared>>
    /\ NoAlert
    /\ mounted
    /\ Len(inflight) < MaxInflight
    /\ inflight' = Append(inflight, ClearOp)
    /\ UserAction
    /\ last' = Event("clearAllWorkouts", 0, 0)
    /\ UNCHANGED <<mounted, workouts, isInitialMount, sinceLastSave, debounce, interval,
                   timeouts, store, backupStatus, statusTimers, sameMs>>

\* ---------------------------------------------- IndexedDB completions
HeadIs(kind) == inflight # <<>> /\ Head(inflight).kind = kind

\* loadFromIndexedDB: request.onsuccess
LoadSucceed ==
    /\ UNCHANGED <<pure, cleared>>
    /\ NoAlert
    /\ HeadIs("load")
    /\ inflight' = Tail(inflight)
    /\ LET result == GetAll(store)
       IN IF Len(result) > 0
          THEN SetWorkouts(result)
          ELSE UNCHANGED <<workouts, debounce, interval, isInitialMount>>
    /\ last' = Event("loaded", 0, 0)
    /\ UNCHANGED <<mounted, sinceLastSave, timeouts, store, backupStatus, statusTimers,
                   sameMs, ops>>

\* loadFromIndexedDB: openDatabase rejects, or request.onerror
LoadFail ==
    /\ UNCHANGED <<pure, cleared>>
    /\ NoAlert
    /\ HeadIs("load")
    /\ inflight' = Tail(inflight)
    /\ last' = Event("loadFailed", 0, 0)
    /\ UNCHANGED <<mounted, workouts, isInitialMount, sinceLastSave, debounce, interval,
                   timeouts, store, backupStatus, statusTimers, sameMs, ops>>

\* saveToIndexedDB: transaction.oncomplete
SaveSucceed ==
    /\ UNCHANGED <<pure, cleared>>
    /\ NoAlert
    /\ HeadIs("save")
    /\ LET op == Head(inflight)
           txn == SaveTransaction(store, op.data)
       IN /\ txn.ok
          /\ store' = txn.contents
          /\ IF op.showStatus
             THEN /\ backupStatus' = IF Len(op.data) = 0 THEN "Workout deleted"
                                     ELSE "Saved to device storage"
                  /\ statusTimers' = statusTimers \cup {StatusDelay}
             ELSE UNCHANGED <<backupStatus, statusTimers>>
          /\ last' = Event(IF op.showStatus THEN "deleteSaved" ELSE "saved", op.id,
                           IF op.id \in {r.id : r \in store} THEN 1 ELSE 0)
    /\ inflight' = Tail(inflight)
    /\ UNCHANGED <<mounted, workouts, isInitialMount, sinceLastSave, debounce, interval,
                   timeouts, sameMs, ops>>

\* the store's contents after clear() and the first k add() of a save
Working(contents, data, k) == StoreAddAll(StoreClear(contents), SubSeq(data, 1, k)).contents

\* faulty variant: the error handler gives up the in-memory collection
SaveFailForget ==
    /\ UNCHANGED <<pure, cleared>>
    /\ NoAlert
    /\ HeadIs("save")
    /\ store' = store
    /\ SetWorkouts(<<>>)
    /\ last' = Event("saveFailed", Head(inflight).id, 0)
    /\ inflight' = Tail(inflight)
    /\ UNCHANGED <<mounted, sinceLastSave, timeouts, backupStatus, statusTimers, sameMs, ops>>

\* saveToIndexedDB: openDatabase rejects, or the transaction fails after k adds
\* (an add of an existing key, a full disk, the page going away)
SaveFail ==
    /\ UNCHANGED <<pure, cleared>>
    /\ NoAlert
    /\ HeadIs("save")
    /\ \E k \in 0..Len(Head(inflight).data) :
          LET working == Working(store, Head(inflight).data, k)
          IN /\ store' = TransactionAbort(store, working)
             /\ last' = Event("saveFailed", Head(inflight).id, IF working # store THEN 1 ELSE 0)
    /\ inflight' = Tail(inflight)
    /\ UNCHANGED <<mounted, workouts, isInitialMount, sinceLastSave, debounce, interval,
                   timeouts, backupStatus, statusTimers, sameMs, ops>>

\* clearAllWorkouts: transaction.oncomplete
ClearSucceed ==
    /\ UNCHANGED pure
    /\ NoAlert
    /\ HeadIs("clear")
    /\ inflight' = Tail(inflight)
    /\ store' = StoreClear(store)
    /\ SetWorkouts(<<>>)
    /\ backupStatus' = "All data cleared"
    /\ cleared' = TRUE
    /\ statusTimers' = statusTimers \cup {StatusDelay}
    /\ last' = Event("cleared", 0, Len(workouts))
    /\ UNCHANGED <<mounted, sinceLastSave, timeouts, sameMs, ops>>

\* faulty variant: the error is logged only, as in saveToIndexedDB
ClearFailSilent ==
    /\ UNCHANGED <<pure, cleared>>
    /\ NoAlert
    /\ HeadIs("clear")
    /\ inflight' = Tail(inflight)
    /\ store' = TransactionAbort(store, StoreClear(store))
    /\ last' = Event("clearFailed", 0, 0)
    /\ UNCHANGED <<mounted, workouts, isInitialMount, sinceLastSave, debounce, interval,
                   timeouts, backupStatus, statusTimers, sameMs, ops>>

\* clearAllWorkouts: openDatabase rejects, or transaction.onerror
ClearFail ==
    /\ UNCHANGED <<pure, cleared>>
    /\ alert = ""
    /\ HeadIs("clear")
    /\ inflight' = Tail(inflight)
    /\ store' = TransactionAbort(store, StoreClear(store))
    /\ alert' = ClearErrorMessage
    /\ last' = Event("clearFailed", 0, 0)
    /\ UNCHANGED <<mounted, workouts, isInitialMount, sinceLastSave, debounce, interval,
                   timeouts, backupStatus, statusTimers, sameMs, ops>>

\* the user closes the alert box
DismissAlert ==
    /\ UNCHANGED <<pure, cleared>>
    /\ alert # ""
    /\ alert' = ""
    /\ last' = Event("dismissAlert", 0, 0)
    /\ UNCHANGED <<mounted, workouts, isInitialMount, sinceLastSave, debounce, interval,
                   timeouts, inflight, store, backupStatus, statusTimers, sameMs, ops>>

\* ------------------------------------------------------------------ time
PendingRems ==
    (IF debounce.rem >= 0 THEN {debounce.rem} ELSE {})
    \cup (IF interval.rem >= 0 THEN {interval.rem} ELSE {})
    \cup {timeouts[i].rem : i \in DOMAIN timeouts}
    \cup statusTimers

\* a debounce or removeWorkout timeout is pending: the user is inside a burst
InBurst == debounce.rem >= 0 \/ timeouts # <<>>

Elapse(t, d) == IF t.rem >= 0 THEN [t EXCEPT !.rem = t.rem - d] ELSE t

\* d ms pass: up to the next deadline, or the user's pause inside a burst
Advance ==
    /\ UNCHANGED <<pure, cleared>>
    /\ NoAlert
    /\ mounted
    /\ PendingRems # {}
    /\ \E d \in {Min(PendingRems)} \cup (IF InBurst THEN {UserStep} ELSE {}) :
        /\ d > 0
        /\ d <= Min(PendingRems)
        /\ debounce' = Elapse(debounce, d)
        /\ interval' = Elapse(interval, d)
        /\ timeouts' = [i \in DOMAIN timeouts |-> Elapse(timeouts[i], d)]
        /\ statusTimers' = {t - d : t \in statusTimers}
        /\ sinceLastSave' = IF sinceLastSave + d > AutoBackupThreshold
                            THEN AutoBackupThreshold + 1 ELSE sinceLastSave + d
    /\ sameMs' = {}
    /\ last' = Event("advance", 0, 0)
    /\ UNCHANGED <<mounted, workouts, isInitialMount, inflight, store, backupStatus, ops>>

\* the page is closed and opened again: a new component over the same store
Reload ==
    /\ UNCHANGED pure
    /\ NoAlert
    /\ mounted
    /\ mounted' = FALSE
    /\ workouts' = <<>>
    /\ isInitialMount' = TRUE
    /\ sinceLastSave' = AutoBackupThreshold + 1
    /\ debounce' = NoTimer
    /\ interval' = NoTimer
    /\ timeouts' = <<>>
    /\ inflight' = <<>>
    /\ backupStatus' = ""
    /\ statusTimers' = {}
    /\ sameMs' = {}
    /\ cleared' = FALSE
    /\ last' = Event("init", 0, 0)
    /\ UNCHANGED <<store, ops>>

\* the buttons of a record exist while the record is displayed
Next ==
    \/ Mount
    \/ AddWorkout
    \/ \E id \in IdsOf(workouts) : IncrementSets(id)
    \/ \E id \in IdsOf(workouts) : DecrementSets(id)
    \/ \E id \in IdsOf(workouts) : RemoveWorkout(id)
    \/ FadeFire
    \/ DeleteSaveFire
    \/ DebounceFire
    \/ IntervalFire
    \/ StatusClearFire
    \/ ClearAllWorkouts
    \/ LoadSucceed
    \/ LoadFail
    \/ SaveSucceed
    \/ SaveFail
    \/ ClearSucceed
    \/ ClearFail
    \/ DismissAlert
    \/ Advance
    \/ Reload

Spec == Init /\ [][Next]_vars

\* ================================================================ claims
Mutations == {"addWorkout", "incrementSets", "decrementSets"}

\* the operation a step has put in flight
NewOp == inflight'[Len(inflight')]

\* the timeout a step has created
NewTimeout == timeouts'[Len(timeouts')]

\* C1: every record of the in-memory collection has sets >= 1 after every
\* step, and decrementSets leaves a record whose sets is 1 as it is.
C1_FloorInvariant ==
    [][/\ \A i \in DOMAIN workouts' : workouts'[i].sets >= 1
       /\ last'.op = "decrementSets" =>
            \A i \in DOMAIN workouts : workouts[i].sets = 1 => workouts'[i] = workouts[i]
      ]_vars

\* decrementSets(1) was the only user action, on the record loaded with 1 set
C1_Witness ==
    /\ last.op = "decrementSets" /\ last.id = 1 /\ ops = 1
    /\ workouts = <<Rec(1, 1)>>

\* C2: no two records of the in-memory collection have the same id.
C2_UniqueIds ==
    \A i, j \in DOMAIN workouts : i # j => workouts[i].id # workouts[j].id

\* C3: a completed save of X leaves a store whose getAll() is X as a set of
\* records (the empty store for the empty X), and a completed load delivers
\* the store's records to the collection.
C3_SaveLoadRoundTrip ==
    [][/\ last'.op \in {"saved", "deleteSaved"} =>
            RecordSet(GetAll(store')) = RecordSet(Head(inflight).data)
       /\ last'.op = "loaded" =>
            IF store = {} THEN workouts' = workouts ELSE RecordSet(workouts') = store
      ]_vars

\* a load has delivered records that a save of an earlier session wrote
C3_Witness ==
    /\ last.op = "loaded"
    /\ store # {} /\ store \notin InitStores
    /\ RecordSet(workouts) = store

\* C4: before the first user action no save is scheduled or started.
C4_NoWriteOnStartup ==
    ops = 0 => /\ debounce = NoTimer
               /\ \A i \in DOMAIN inflight : inflight[i].kind # "save"

\* C5: add, increment and decrement start no save themselves and leave one
\* debounce timeout, 500 ms from now, holding the new collection; a pending
\* debounce timeout always holds the current collection; the timeout fires
\* when its 500 ms are over, starts one save of the current collection and
\* leaves no debounce timeout behind.
C5_DebounceCoalescing ==
    [][/\ last'.op \in Mutations =>
            /\ debounce' = [rem |-> DebounceDelay, data |-> workouts']
            /\ inflight' = inflight
       /\ debounce'.rem >= 0 => debounce'.data = workouts'
       /\ last'.op = "debounceSave" =>
            /\ debounce.rem = 0
            /\ debounce' = NoTimer
            /\ inflight' = Append(inflight, SaveOp(workouts, FALSE, 0))
      ]_vars

\* a mutation has arrived while a debounce timeout was running and restarted it
C5_Witness ==
    /\ last.op \in Mutations
    /\ last.info > 0 /\ last.info < DebounceDelay
    /\ debounce = [rem |-> DebounceDelay, data |-> workouts]

\* C6 as stated: every save that starts writes the collection as it is then.
C6_FlushWritesCurrent ==
    [][last'.op \in {"debounceSave", "autoBackup", "deleteSave"} => NewOp.data = workouts]_vars

\* C6 amended: a debounced or periodic save writes the collection as it is
\* when the save starts; a deletion save writes the collection as it was
\* right after the removal, 100 ms earlier; no step changes an operation in
\* flight or a deletion snapshot; a mutation leaves the operations in flight
\* alone and schedules a debounced save of the new collection.
C6_FlushWritesSnapshot ==
    [][/\ last'.op \in {"debounceSave", "autoBackup"} => NewOp.data = workouts
       /\ last'.op = "fade" =>
            NewTimeout = Timeout("deleteSave", DeleteSaveDelay, workouts', last'.id)
       /\ last'.op = "deleteSave" =>
            \E i \in DOMAIN timeouts :
                /\ timeouts[i].kind = "deleteSave" /\ timeouts[i].rem = 0
                /\ NewOp.data = timeouts[i].data
       /\ \/ inflight' \in {inflight, <<>>}
          \/ inflight # <<>> /\ inflight' = Tail(inflight)
          \/ /\ Len(inflight') = Len(inflight) + 1
             /\ SubSeq(inflight', 1, Len(inflight)) = inflight
       /\ last'.op \in Mutations =>
            /\ inflight' = inflight
            /\ timeouts' = timeouts
            /\ debounce' = [rem |-> DebounceDelay, data |-> workouts']
      ]_vars

\* a deletion save has started with a snapshot the collection has left behind
C6_Witness ==
    /\ last.op = "deleteSave"
    /\ inflight # <<>>
    /\ inflight[Len(inflight)].data # workouts

\* C7: the 150 ms callback of removeWorkout leaves a collection without the
\* id and a timeout of 100 ms (less than the debounce delay) holding that
\* collection; when the timeout is due a save of it starts; when that save
\* has committed, getAll() on the store returns no record with the id.
C7_PromptDeletionFlush ==
    [][/\ last'.op = "fade" =>
            /\ last'.id \notin IdsOf(workouts')
            /\ NewTimeout.kind = "deleteSave"
            /\ NewTimeout.rem = DeleteSaveDelay /\ NewTimeout.rem < DebounceDelay
            /\ NewTimeout.data = workouts'
       /\ last'.op = "deleteSave" =>
            /\ \E i \in DOMAIN timeouts :
                 timeouts[i] = Timeout("deleteSave", 0, NewOp.data, last'.id)
            /\ NewOp.kind = "save" /\ NewOp.showStatus
            /\ last'.id \notin IdsOf(NewOp.data)
       /\ last'.op = "deleteSaved" =>
            \A r \in RecordSet(GetAll(store')) : r.id # last'.id
      ]_vars

\* a deletion save has committed and taken the removed record out of the store
C7_Witness ==
    /\ last.op = "deleteSaved" /\ last.info = 1
    /\ \A r \in store : r.id # last.id

\* C8: the periodic check runs every 5 minutes whatever else happens: nothing
\* but its own firing (or the mount) sets its timer back.
C8_PeriodicRegardless ==
    [][interval'.rem > interval.rem => interval.rem <= 0]_vars

\* C9 as stated: resetAll issues the clear at once, and when the clear is done
\* the collection is empty and no debounced save has been scheduled by it.
C9_NoDebounceAfterReset ==
    [][/\ last'.op = "clearAllWorkouts" => inflight' = Append(inflight, ClearOp)
       /\ last'.op = "cleared" => workouts' = <<>> /\ debounce' = debounce
      ]_vars

\* C9 amended: resetAll issues the store clear at once, leaving collection and
\* debounce timeout alone; when the clear has committed the store and the
\* collection are empty and a debounced save of the empty collection is
\* scheduled 500 ms later; when the clear fails both stay as they were.
C9_ResetAll ==
    [][/\ last'.op = "clearAllWorkouts" =>
            /\ inflight' = Append(inflight, ClearOp)
            /\ UNCHANGED <<workouts, debounce, store>>
       /\ last'.op = "cleared" =>
            /\ workouts' = <<>> /\ store' = {}
            /\ debounce' = [rem |-> DebounceDelay, data |-> <<>>]
       /\ last'.op = "clearFailed" => UNCHANGED <<workouts, debounce, store>>
      ]_vars

\* a reset has emptied a collection that held records
C9_Witness ==
    /\ last.op = "cleared" /\ last.info > 0
    /\ workouts = <<>> /\ store = {}
    /\ debounce = [rem |-> DebounceDelay, data |-> <<>>]

\* C10: the store changes only to the whole argument of a save that commits
\* or to nothing when a clear commits; a save that fails leaves it as it was.
C10_AtomicReplace ==
    [][\/ store' = store
       \/ /\ last'.op \in {"saved", "deleteSaved"}
          /\ store' = RecordSet(Head(inflight).data)
       \/ /\ last'.op = "cleared"
          /\ store' = {}
      ]_vars

\* a save has failed after its clear or adds had changed the working contents,
\* and the store holds the records it held before
C10_Witness ==
    /\ last.op = "saveFailed" /\ last.info = 1
    /\ store # {}

\* a load is waiting in the queue of IndexedDB
LoadInFlight == \E i \in DOMAIN inflight : inflight[i].kind = "load"

\* C11: only the mount issues a load, and while that load has not completed
\* no save is issued and no user mutation changes the collection.
C11_LoadBeforeWrites ==
    [][/\ (Len(inflight') > Len(inflight) /\ NewOp.kind = "load") => last'.op = "mount"
       /\ LoadInFlight =>
            /\ last'.op \notin Mutations \cup {"fade"}
            /\ ~(Len(inflight') > Len(inflight) /\ NewOp.kind = "save")
      ]_vars

\* every mutation operation that the explored budget still allows can be taken
Usable ==
    ops < MaxOps =>
        /\ (Len(workouts) < MaxRecords /\ GeneratedIds # {}) => ENABLED AddWorkout
        /\ \A id \in IdsOf(workouts) :
            /\ (\A i \in DOMAIN workouts : workouts[i].sets < MaxSets) => ENABLED IncrementSets(id)
            /\ ENABLED DecrementSets(id)
            /\ Len(timeouts) < MaxTimeouts => ENABLED RemoveWorkout(id)

\* C12: a failed load and a failed save raise nothing, leave the in-memory
\* collection and its pending timers exactly as they were, and the mutation
\* operations can be taken afterwards.
C12_FailuresContained ==
    /\ [][last'.op \in {"loadFailed", "saveFailed"} =>
            /\ workouts' = workouts
            /\ debounce' = debounce /\ timeouts' = timeouts /\ mounted' = mounted
         ]_vars
    /\ [](last.op \in {"loadFailed", "saveFailed"} => Usable)

\* a save of a non-empty collection has failed after the transaction had
\* changed the store, and the collection is there to be changed further
C12_Witness ==
    /\ last.op = "saveFailed" /\ last.info = 1
    /\ workouts # <<>>
    /\ ops < MaxOps
    /\ ENABLED AddWorkout

\* C13: a failed clear of clearAllWorkouts opens an alert box with the error
\* text, and a failed load or a failed save opens none.
C13_OnlyResetAlerts ==
    [][/\ last'.op = "clearFailed" => alert' = ClearErrorMessage
       /\ last'.op \in {"loadFailed", "saveFailed"} => alert' = ""
       /\ (alert = "" /\ alert' # "") => last'.op = "clearFailed"
      ]_vars

\* the clear has failed with records in the store and in the collection, and
\* the alert box is open
C13_Witness ==
    /\ last.op = "clearFailed"
    /\ alert = ClearErrorMessage
    /\ store # {} /\ workouts # <<>>

FlushMessages == {"Workout deleted", "Saved to device storage"}

\* C14: only the save started by removeWorkout asks for a status message; a
\* save started by the debounce timeout or by the auto backup interval asks
\* for none, and its completion leaves the status message as it was.
C14_StatusOnlyOnDeletion ==
    [][/\ last'.op \in {"debounceSave", "autoBackup"} => ~NewOp.showStatus
       /\ last'.op = "deleteSave" => NewOp.showStatus
       /\ last'.op = "saved" =>
            /\ ~Head(inflight).showStatus
            /\ backupStatus' = backupStatus /\ statusTimers' = statusTimers
       /\ last'.op = "deleteSaved" =>
            /\ Head(inflight).showStatus
            /\ backupStatus' \in FlushMessages
       /\ (backupStatus' # backupStatus /\ backupStatus' \in FlushMessages) =>
            last'.op = "deleteSaved"
      ]_vars

\* removing the only record was the only user action: the save of the
\* deletion has emptied the store and its message is shown
C14_Witness ==
    /\ last.op = "deleteSaved"
    /\ backupStatus = "Workout deleted"
    /\ store = {}
    /\ ops = 1

\* ============================================================== calendar
\* the pure functions of the component, each applied to arguments drawn from
\* bounded sets; the component itself stays unmounted

MsPerHour == 60 * 60 * 1000

MsPerDay == 24 * MsPerHour

\* the offsets of local time from UTC under which the functions are applied
Timezones == {0, 2 * MsPerHour, 0 - 5 * MsPerHour}

\* the times of day at which something happens: midnight, noon, the last ms
TimesOfDay == {0, MsPerDay \div 2, MsPerDay - 1}

\* Date values: ms since the epoch, on the days 1..MaxDay of local time
Instants(tz) == {d * MsPerDay + t - tz : d \in 1..MaxDay, t \in TimesOfDay}

\* date.setHours(0, 0, 0, 0): local midnight of the day of t
StartOfDay(t, tz) == t - ((t + tz) % MsPerDay)

\* date.toISOString(): the fields of t in UTC
ToISOString(t) == [day |-> t \div MsPerDay, ms |-> t % MsPerDay]

\* a string that new Date() cannot parse
Malformed == [day |-> 0, ms |-> 0 - 1]

\* a Date object: its time value is NaN (Invalid Date) or ms since the epoch
InvalidDate == [nan |-> TRUE, time |-> 0]

\* new Date(string)
ParseDate(s) ==
    IF s.ms \in 0..(MsPerDay - 1)
    THEN [nan |-> FALSE, time |-> s.day * MsPerDay + s.ms]
    ELSE InvalidDate

\* isNaN(date.getTime())
IsNaN(date) == date.nan

\* date >= t and date <= t: false for an Invalid Date
DateGeq(date, t) == ~date.nan /\ date.time >= t

DateLeq(date, t) == ~date.nan /\ date.time <= t

\* const bodyParts
BodyParts ==
    {"Biceps", "Triceps", "Legs", "Cardio", "Back", "Chest", "Glutes", "Shoulders", "Abs"}

\* const today = useMemo(..., []): the midnight before the first render
Today(mountedAt, tz) == StartOfDay(mountedAt, tz)

\* addWorkout: const newWorkout
NewWorkout(id, bodyPart, today, now) ==
    [id |-> id, date |-> ToISOString(today), bodyPart |-> bodyPart,
     timestamp |-> ToISOString(now), sets |-> 1]

\* the collections addWorkout is called on: empty, or one record of day 1
EarlierWorkouts(tz) ==
    {<<>>} \cup {<<NewWorkout(1, b, StartOfDay(t, tz), t)>> :
                    b \in {"Biceps"}, t \in {MsPerDay - tz}}

\* ------------------------------------------------- addWorkout, with dates
AddInit ==
    /\ InitComponent
    /\ store = {}
    /\ \E tz \in Timezones :
        input \in [tz : {tz}, mountedAt : Instants(tz), now : Instants(tz),
                   workouts : EarlierWorkouts(tz), bodyPart : {"Biceps", "Legs"}, id : Ids]
    /\ input.mountedAt <= input.now
    /\ output = NoOutput

\* addWorkout(bodyPart) at the instant now, in a component mounted at mountedAt
AddWorkoutCall ==
    /\ output = NoOutput
    /\ output' = [fn |-> "addWorkout",
                  value |-> Append(input.workouts,
                                   NewWorkout(input.id, input.bodyPart,
                                              Today(input.mountedAt, input.tz), input.now))]
    /\ UNCHANGED <<component, input>>

AddNext == AddWorkoutCall

AddSpec == AddInit /\ [][AddNext]_vars

\* C15: addWorkout(bodyPart) returns the collection with one record appended:
\* sets 1, the body part, date = the local midnight of the day of the call,
\* timestamp = the instant of the call; the earlier records are unchanged.
C15_AddWorkoutToday ==
    output.fn = "addWorkout" =>
        LET w == input.workouts
            r == output.value
            n == Len(r)
        IN /\ n = Len(w) + 1
           /\ SubSeq(r, 1, n - 1) = w
           /\ r[n].sets = 1
           /\ r[n].bodyPart = input.bodyPart
           /\ ParseDate(r[n].timestamp) = [nan |-> FALSE, time |-> input.now]
           /\ ParseDate(r[n].date) = [nan |-> FALSE, time |-> StartOfDay(input.now, input.tz)]

\* ------------------------------------------------------------------ C16
\* the records of w whose id is not id, in their order
Others(w, id) == SelectSeq(w, LAMBDA r : r.id # id)

\* C16: incrementSets(id) adds 1 to the sets of the records with that id,
\* decrementSets(id) subtracts 1 from those of them with sets > 1, and the
\* removal of id drops them; each leaves every record with another id and the
\* order of the remaining records unchanged, and leaves the whole collection
\* unchanged when no record has the id.
C16_LocalMutations ==
    /\ [][/\ last'.op = "incrementSets" =>
               /\ Len(workouts') = Len(workouts)
               /\ \A i \in DOMAIN workouts :
                    workouts'[i] = IF workouts[i].id = last'.id
                                   THEN Rec(workouts[i].id, workouts[i].sets + 1)
                                   ELSE workouts[i]
          /\ last'.op = "decrementSets" =>
               /\ Len(workouts') = Len(workouts)
               /\ \A i \in DOMAIN workouts :
                    workouts'[i] = IF workouts[i].id = last'.id /\ workouts[i].sets > 1
                                   THEN Rec(workouts[i].id, workouts[i].sets - 1)
                                   ELSE workouts[i]
          /\ last'.op = "fade" =>
               /\ last'.id \notin IdsOf(workouts')
               /\ Others(workouts', last'.id) = Others(workouts, last'.id)
               /\ last'.id \notin IdsOf(workouts) => workouts' = workouts
         ]_vars
    /\ [](\A id \in Ids \ IdsOf(workouts) :
            /\ IncrementedSets(workouts, id) = workouts
            /\ DecrementedSets(workouts, id) = workouts
            /\ Filtered(workouts, id) = workouts)

\* incrementSets(1) has changed the first of two records and not the second
C16_Witness ==
    /\ last.op = "incrementSets" /\ last.id = 1
    /\ workouts = <<Rec(1, 2), Rec(2, 1)>>

\* the removal of a record has run after the collection was cleared: no
\* record had the id
C16_WitnessNoMatch ==
    /\ last.op = "fade" /\ last.info = 0
    /\ workouts = <<>>

\* ================================================================ stats
\* faulty variant: the thresholds are compared with > instead of >=
MuscleLevelStrict(sets) ==
    IF sets > Level5Sets THEN [level |-> 5, rank |-> "Master"]
    ELSE IF sets > Level4Sets THEN [level |-> 4, rank |-> "Expert"]
    ELSE IF sets > Level3Sets THEN [level |-> 3, rank |-> "Advanced"]
    ELSE IF sets > Level2Sets THEN [level |-> 2, rank |-> "Intermediate"]
    ELSE [level |-> 1, rank |-> "Beginner"]

\* calculateMuscleStats: the level and rank of a muscle group with that many sets
MuscleLevel(sets) ==
    IF sets >= Level5Sets THEN [level |-> 5, rank |-> "Master"]
    ELSE IF sets >= Level4Sets THEN [level |-> 4, rank |-> "Expert"]
    ELSE IF sets >= Level3Sets THEN [level |-> 3, rank |-> "Advanced"]
    ELSE IF sets >= Level2Sets THEN [level |-> 2, rank |-> "Intermediate"]
    ELSE [level |-> 1, rank |-> "Beginner"]

LevelInit ==
    /\ InitComponent
    /\ store = {}
    /\ input \in [sets : 0..MaxTotal]
    /\ output = NoOutput

\* the level calculation for one muscle group
CalculateLevel ==
    /\ output = NoOutput
    /\ output' = [fn |-> "level", value |-> MuscleLevel(input.sets)]
    /\ UNCHANGED <<component, input>>

LevelNext == CalculateLevel

LevelSpec == LevelInit /\ [][LevelNext]_vars

\* C17: the level of a total of sets is 1 Beginner below 10, 2 Intermediate
\* for 10..19, 3 Advanced for 20..29, 4 Expert for 30..49 and 5 Master from
\* 50 on; it is in 1..5 and no smaller total has a higher level.
C17_LevelSteps ==
    output.fn = "level" =>
        LET n == input.sets
            v == output.value
        IN /\ v = (CASE n < 10 -> [level |-> 1, rank |-> "Beginner"]
                     [] n \in 10..19 -> [level |-> 2, rank |-> "Intermediate"]
                     [] n \in 20..29 -> [level |-> 3, rank |-> "Advanced"]
                     [] n \in 30..49 -> [level |-> 4, rank |-> "Expert"]
                     [] n >= 50 -> [level |-> 5, rank |-> "Master"])
           /\ v.level \in 1..5
           /\ \A m \in 0..n : MuscleLevel(m).level <= v.level

\* the level of exactly 50 sets has been computed
C17_Witness ==
    /\ output.fn = "level"
    /\ input.sets = 50
    /\ output.value = [level |-> 5, rank |-> "Master"]

\* ------------------------------------------------- countSetsByBodyPart
\* faulty variant: a record without sets counts for nothing
SetsOrZero(r) == IF "sets" \notin DOMAIN r THEN 0 ELSE r.sets

\* workout.sets || 1
SetsOr1(r) == IF "sets" \notin DOMAIN r THEN 1 ELSE IF r.sets = 0 THEN 1 ELSE r.sets

\* the counts after the forEach over the first n records of workoutList
RECURSIVE CountsAfter(_, _)
CountsAfter(workoutList, n) ==
    IF n = 0
    THEN [b \in BodyParts |-> 0]
    ELSE LET counts == CountsAfter(workoutList, n - 1)
             workout == workoutList[n]
         IN [counts EXCEPT ![workout.bodyPart] = counts[workout.bodyPart] + SetsOr1(workout)]

CountSetsByBodyPart(workoutList) == CountsAfter(workoutList, Len(workoutList))

\* a stored record of a body part with that many sets
StoredWorkout(id, bodyPart, sets) ==
    [NewWorkout(id, bodyPart, MsPerDay, MsPerDay) EXCEPT !.sets = sets]

\* a stored record that has no sets property
LegacyWorkout(id, bodyPart) ==
    [id |-> id, date |-> ToISOString(MsPerDay), bodyPart |-> bodyPart,
     timestamp |-> ToISOString(MsPerDay)]

\* the set counts of the records the function is applied to
SetCounts == {1, 3}

\* the body parts of the records the function is applied to: any one first,
\* then these
LaterParts == {"Biceps", "Legs"}

\* the records with that id the function is applied to
StoredWorkouts(id) ==
    LET parts == IF id = 1 THEN BodyParts ELSE LaterParts
    IN {StoredWorkout(id, b, s) : b \in parts, s \in SetCounts}
       \cup {LegacyWorkout(id, b) : b \in parts}

\* the lists of at most n records, ids in the order of creation
RECURSIVE WorkoutLists(_)
WorkoutLists(n) ==
    IF n = 0
    THEN {<<>>}
    ELSE LET shorter == WorkoutLists(n - 1)
         IN shorter \cup {Append(w, r) :
                            w \in {x \in shorter : Len(x) = n - 1}, r \in StoredWorkouts(n)}

CountInit ==
    /\ InitComponent
    /\ store = {}
    /\ input \in [workoutList : WorkoutLists(MaxList)]
    /\ output = NoOutput

CountSets ==
    /\ output = NoOutput
    /\ output' = [fn |-> "countSetsByBodyPart",
                  value |-> CountSetsByBodyPart(input.workoutList)]
    /\ UNCHANGED <<component, input>>

CountNext == CountSets

CountSpec == CountInit /\ [][CountNext]_vars

\* the sum of f over the set S of indices
RECURSIVE SumOver(_, _)
SumOver(S, w) ==
    IF S = {} THEN 0
    ELSE LET i == CHOOSE j \in S : TRUE
         IN (IF "sets" \in DOMAIN w[i] THEN w[i].sets ELSE 1) + SumOver(S \ {i}, w)

\* C18: countSetsByBodyPart returns one entry for each of the 9 body parts of
\* the catalog: the sum of the sets of the list's records of that body part,
\* a record without sets counting 1, and 0 when the list has no such record.
C18_TotalSets ==
    output.fn = "countSetsByBodyPart" =>
        LET w == input.workoutList
            counts == output.value
        IN /\ DOMAIN counts = BodyParts
           /\ Cardinality(BodyParts) = 9
           /\ \A b \in BodyParts :
                counts[b] = SumOver({i \in DOMAIN w : w[i].bodyPart = b}, w)
           /\ \A b \in BodyParts :
                (\A i \in DOMAIN w : w[i].bodyPart # b) => counts[b] = 0

\* three Biceps records, the second incremented twice: Biceps 5, the others 0
C18_Witness ==
    /\ output.fn = "countSetsByBodyPart"
    /\ input.workoutList = <<StoredWorkout(1, "Biceps", 1), StoredWorkout(2, "Biceps", 3),
                             StoredWorkout(3, "Biceps", 1)>>
    /\ output.value = [b \in BodyParts |-> IF b = "Biceps" THEN 5 ELSE 0]

\* --------------------------------------------------------- weekWorkouts
\* date.getDay(): 0 is Sunday; the epoch's day 0 was a Thursday
GetDay(t, tz) == ((t + tz) \div MsPerDay + 4) % 7

\* date.setDate(date.getDate() + days)
AddDays(t, days) == t + days * MsPerDay

\* date.setHours(23, 59, 59, 999)
EndOfDay(t, tz) == StartOfDay(t, tz) + 23 * MsPerHour + 59 * 60 * 1000 + 59 * 1000 + 999

\* faulty variant: Sunday is not adjusted
GetStartOfWeekPlain(date, tz) ==
    LET day == GetDay(date, tz)
        diff == 1 - day
    IN StartOfDay(AddDays(date, diff), tz)

GetStartOfWeek(date, tz) ==
    LET day == GetDay(date, tz)
        diff == (IF day = 0 THEN 0 - 6 ELSE 1) - day
    IN StartOfDay(AddDays(date, diff), tz)

WeekWorkouts(w, today, tz) ==
    LET startOfWeek == GetStartOfWeek(today, tz)
        endOfWeek == EndOfDay(AddDays(startOfWeek, 6), tz)
        Keep(workout) ==
            LET workoutDate == ParseDate(workout.date)
            IN IF IsNaN(workoutDate) THEN FALSE
               ELSE DateGeq(workoutDate, startOfWeek) /\ DateLeq(workoutDate, endOfWeek)
    IN SelectSeq(w, Keep)

\* the days of the reference week: Monday 11 to Sunday 17 of local time
RefDays == 11..17

\* a stored record with that date string
DatedWorkout(id, date) ==
    [NewWorkout(id, "Biceps", MsPerDay, MsPerDay) EXCEPT !.date = date]

\* the date strings of stored records: an instant of a day at most MaxOffset
\* days from the reference Monday, or a string that does not parse
DateStrings(tz) ==
    {ToISOString(d * MsPerDay + t - tz) : d \in (11 - MaxOffset)..(11 + MaxOffset), t \in TimesOfDay}
    \cup {Malformed}

\* the lists the date filters are applied to: at most one record of any date,
\* then possibly a record of the Monday after the reference week or one
\* with a malformed date
DatedLists(tz) ==
    LET one == {<<DatedWorkout(1, s)>> : s \in DateStrings(tz)}
    IN {<<>>} \cup one
       \cup {Append(w, DatedWorkout(2, s)) :
                w \in one, s \in {ToISOString(18 * MsPerDay - tz), Malformed}}

WeekInit ==
    /\ InitComponent
    /\ store = {}
    /\ \E tz \in Timezones :
        input \in [tz : {tz}, today : {d * MsPerDay - tz : d \in RefDays},
                   workouts : DatedLists(tz)]
    /\ output = NoOutput

WeekFilter ==
    /\ output = NoOutput
    /\ output' = [fn |-> "weekWorkouts",
                  value |-> WeekWorkouts(input.workouts, input.today, input.tz)]
    /\ UNCHANGED <<component, input>>

WeekNext == WeekFilter

WeekSpec == WeekInit /\ [][WeekNext]_vars

\* the local calendar day of an instant, counted from the epoch
LocalDay(t, tz) == (t + tz) \div MsPerDay

\* C19: weekWorkouts is the list of the records whose date parses and lies
\* between 00:00 of the Monday on or before the reference day and
\* 23:59:59.999 of the Sunday after it, in their order; for a Sunday the
\* Monday is 6 days earlier; records of the Monday before and of the Monday
\* after that week are left out.
C19_WeekSpan ==
    output.fn = "weekWorkouts" =>
        LET tz == input.tz
            ref == LocalDay(input.today, tz)
            monday == CHOOSE m \in (ref - 6)..ref : (m + 4) % 7 = 1
            first == monday * MsPerDay - tz
            lastMs == (monday + 7) * MsPerDay - tz - 1
            InWeek(r) ==
                /\ r.date # Malformed
                /\ ParseDate(r.date).time >= first
                /\ ParseDate(r.date).time <= lastMs
            kept == output.value
        IN /\ kept = SelectSeq(input.workouts, InWeek)
           /\ (ref + 4) % 7 = 0 => monday = ref - 6
           /\ \A i \in DOMAIN kept :
                LocalDay(ParseDate(kept[i].date).time, tz) \notin {monday - 7, monday + 7}

\* the reference day is a Sunday: its last millisecond is in the week and the
\* first of the next Monday is not
C19_Witness ==
    /\ output.fn = "weekWorkouts"
    /\ GetDay(input.today, input.tz) = 0
    /\ Len(input.workouts) = 2
    /\ input.workouts[1].date = ToISOString(input.today + MsPerDay - 1)
    /\ input.workouts[2].date = ToISOString(input.today + MsPerDay)
    /\ output.value = <<input.workouts[1]>>

\* -------------------------------------------------------- todayWorkouts
\* faulty variant: the record's date is not set to midnight before the test
TodayWorkoutsExact(w, today, tz) ==
    LET Keep(workout) ==
            LET workoutDate == ParseDate(workout.date)
            IN IF IsNaN(workoutDate) THEN FALSE
               ELSE workoutDate.time = today
    IN SelectSeq(w, Keep)

TodayWorkouts(w, today, tz) ==
    LET Keep(workout) ==
            LET workoutDate == ParseDate(workout.date)
            IN IF IsNaN(workoutDate) THEN FALSE
               ELSE StartOfDay(workoutDate.time, tz) = today
    IN SelectSeq(w, Keep)

\* the days for which the records of a day are asked
FilterDays == (11 - MaxOffset)..(11 + MaxOffset)

DayInit ==
    /\ InitComponent
    /\ store = {}
    /\ \E tz \in Timezones :
        input \in [tz : {tz}, today : {d * MsPerDay - tz : d \in FilterDays},
                   workouts : DatedLists(tz)]
    /\ output = NoOutput

DayFilter ==
    /\ output = NoOutput
    /\ output' = [fn |-> "todayWorkouts",
                  value |-> TodayWorkouts(input.workouts, input.today, input.tz)]
    /\ UNCHANGED <<component, input>>

DayNext == DayFilter

DaySpec == DayInit /\ [][DayNext]_vars

\* the records of a list
Range(w) == {w[i] : i \in DOMAIN w}

\* C20: todayWorkouts is the list of the records whose date parses and falls
\* on the given local calendar day, in their order; a record with a malformed
\* date is in the result of no day; the results of two different days share
\* no record, and the results of all days together are the records whose
\* date parses.
C20_DayBuckets ==
    output.fn = "todayWorkouts" =>
        LET tz == input.tz
            w == input.workouts
            OnDay(r) ==
                /\ r.date # Malformed
                /\ LocalDay(ParseDate(r.date).time, tz) = LocalDay(input.today, tz)
            Bucket(d) == Range(TodayWorkouts(w, d * MsPerDay - tz, tz))
        IN /\ output.value = SelectSeq(w, OnDay)
           /\ \A d \in FilterDays : \A r \in Bucket(d) : r.date # Malformed
           /\ \A d1, d2 \in FilterDays : d1 # d2 => Bucket(d1) \cap Bucket(d2) = {}
           /\ UNION {Bucket(d) : d \in FilterDays} = {r \in Range(w) : r.date # Malformed}

\* of a record of the day's last millisecond and one with a malformed date
\* the first is the day's result
C20_Witness ==
    /\ output.fn = "todayWorkouts"
    /\ Len(input.workouts) = 2
    /\ input.workouts[1].date = ToISOString(input.today + MsPerDay - 1)
    /\ input.workouts[2].date = Malformed
    /\ output.value = <<input.workouts[1]>>

\* -------------------------------------------------- groupWorkoutsByDate
\* date.toLocaleDateString(): the local calendar date, here its day number
ToLocaleDateString(t, tz) == (t + tz) \div MsPerDay

\* faulty variant: an Invalid Date is formatted as if it were the epoch
DateKeyEpoch(workout, now, tz) ==
    LET date == ParseDate(workout.date)
    IN ToLocaleDateString(date.time, tz)

\* groupWorkoutsByDate: dateKey
DateKey(workout, now, tz) ==
    LET date == ParseDate(workout.date)
    IN IF IsNaN(date)
       THEN ToLocaleDateString(now, tz)
       ELSE ToLocaleDateString(date.time, tz)

\* grouped after the forEach over the first n records of workoutList
RECURSIVE GroupedAfter(_, _, _, _)
GroupedAfter(workoutList, n, now, tz) ==
    IF n = 0
    THEN [k \in {} |-> <<>>]
    ELSE LET grouped == GroupedAfter(workoutList, n - 1, now, tz)
             workout == workoutList[n]
             dateKey == DateKey(workout, now, tz)
         IN IF dateKey \in DOMAIN grouped
            THEN [grouped EXCEPT ![dateKey] = Append(grouped[dateKey], workout)]
            ELSE [k \in DOMAIN grouped \cup {dateKey} |->
                    IF k = dateKey THEN <<workout>> ELSE grouped[k]]

GroupWorkoutsByDate(workoutList, now, tz) ==
    GroupedAfter(workoutList, Len(workoutList), now, tz)

GroupInit ==
    /\ InitComponent
    /\ store = {}
    /\ \E tz \in Timezones :
        input \in [tz : {tz}, now : {d * MsPerDay + t - tz : d \in {17, 18}, t \in TimesOfDay},
                   workoutList : DatedLists(tz)]
    /\ output = NoOutput

GroupByDate ==
    /\ output = NoOutput
    /\ output' = [fn |-> "groupWorkoutsByDate",
                  value |-> GroupWorkoutsByDate(input.workoutList, input.now, input.tz)]
    /\ UNCHANGED <<component, input>>

GroupNext == GroupByDate

GroupSpec == GroupInit /\ [][GroupNext]_vars

\* the sum of the lengths of the buckets with the keys K
RECURSIVE SizeOf(_, _)
SizeOf(grouped, K) ==
    IF K = {} THEN 0
    ELSE LET k == CHOOSE x \in K : TRUE
         IN Len(grouped[k]) + SizeOf(grouped, K \ {k})

\* C21: groupWorkoutsByDate puts every record of the list into the bucket of
\* the local day of its date, a record with a malformed date into the bucket
\* of the current day; every bucket holds its records in the order of the
\* list and is not empty; each record is in exactly one bucket and the sizes
\* of the buckets add up to the length of the list.
C21_GroupByDay ==
    output.fn = "groupWorkoutsByDate" =>
        LET tz == input.tz
            w == input.workoutList
            grouped == output.value
            DayOf(r) == IF r.date = Malformed THEN LocalDay(input.now, tz)
                        ELSE LocalDay(ParseDate(r.date).time, tz)
        IN /\ DOMAIN grouped = {DayOf(w[i]) : i \in DOMAIN w}
           /\ \A k \in DOMAIN grouped :
                LET OnDay(r) == DayOf(r) = k
                IN grouped[k] # <<>> /\ grouped[k] = SelectSeq(w, OnDay)
           /\ \A i \in DOMAIN w :
                Cardinality({k \in DOMAIN grouped : w[i] \in Range(grouped[k])}) = 1
           /\ SizeOf(grouped, DOMAIN grouped) = Len(w)

\* a record of the current day and one with a malformed date are in one
\* bucket, in the order of the list
C21_Witness ==
    /\ output.fn = "groupWorkoutsByDate"
    /\ Len(input.workoutList) = 2
    /\ input.workoutList[1].date = ToISOString(18 * MsPerDay + MsPerDay \div 2 - input.tz)
    /\ input.workoutList[2].date = Malformed
    /\ LocalDay(input.now, input.tz) = 18
    /\ output.value = [k \in {18} |-> input.workoutList]

\* ------------------------------------------------------------- duration
\* dayWorkouts.map(w => new Date(w.timestamp).getTime())
Times(dayWorkouts) == {ParseDate(dayWorkouts[i].timestamp).time : i \in DOMAIN dayWorkouts}

\* faulty variant: the first record is taken for the earliest
FirstTimeOfList(dayWorkouts) == ParseDate(dayWorkouts[1].timestamp).time

\* Math.min(...)
FirstTime(dayWorkouts) ==
    CHOOSE t \in Times(dayWorkouts) : \A u \in Times(dayWorkouts) : t <= u

\* Math.max(...)
LastTime(dayWorkouts) ==
    CHOOSE t \in Times(dayWorkouts) : \A u \in Times(dayWorkouts) : t >= u

\* the duration shown for the records of a day, if one is shown
Duration(dayWorkouts) ==
    IF Len(dayWorkouts) > 1
    THEN LET diffMs == LastTime(dayWorkouts) - FirstTime(dayWorkouts)
             diffMins == diffMs \div MsPerMinute
         IN [shown |-> TRUE, diffMins |-> diffMins,
             hours |-> diffMins \div 60, mins |-> diffMins % 60]
    ELSE [shown |-> FALSE, diffMins |-> 0, hours |-> 0, mins |-> 0]

\* a record of day 11 added at that time of the day
TimedWorkout(id, t) ==
    [NewWorkout(id, "Biceps", 11 * MsPerDay, 11 * MsPerDay) EXCEPT
        !.timestamp = ToISOString(11 * MsPerDay + t)]

\* the times of day of the records: around a minute and around an hour
TimesOfWorkouts ==
    {0, MsPerMinute - 1, MsPerMinute, MsPerMinute + 1, MsPerHour - 1, MsPerHour}

\* the lists of at most n records of one day, in any order of their times
RECURSIVE TimedLists(_)
TimedLists(n) ==
    IF n = 0
    THEN {<<>>}
    ELSE LET shorter == TimedLists(n - 1)
         IN shorter \cup {Append(w, TimedWorkout(n, t)) :
                            w \in {x \in shorter : Len(x) = n - 1}, t \in TimesOfWorkouts}

DurationInit ==
    /\ InitComponent
    /\ store = {}
    /\ input \in [dayWorkouts : TimedLists(MaxList)]
    /\ output = NoOutput

ShowDuration ==
    /\ output = NoOutput
    /\ output' = [fn |-> "duration", value |-> Duration(input.dayWorkouts)]
    /\ UNCHANGED <<component, input>>

DurationNext == ShowDuration

DurationSpec == DurationInit /\ [][DurationNext]_vars

\* C22: a duration is shown for the records of a day exactly when there are
\* at least 2 of them; it is then the whole number of minutes, rounded down,
\* from the smallest to the largest timestamp, and is not negative.
C22_DurationSpan ==
    output.fn = "duration" =>
        LET w == input.dayWorkouts
            v == output.value
            T == {w[i].timestamp.day * MsPerDay + w[i].timestamp.ms : i \in DOMAIN w}
        IN /\ v.shown <=> Len(w) >= 2
           /\ v.shown =>
                /\ v.diffMins >= 0
                /\ \E lo, hi \in T :
                    /\ \A t \in T : lo <= t /\ t <= hi
                    /\ v.diffMins * 60000 <= hi - lo
                    /\ hi - lo < (v.diffMins + 1) * 60000
                /\ v.hours * 60 + v.mins = v.diffMins /\ v.mins \in 0..59

\* the later record comes first in the list and is one ms short of an hour
\* after the other: 59 minutes
C22_Witness ==
    /\ output.fn = "duration"
    /\ input.dayWorkouts = <<TimedWorkout(1, MsPerHour - 1), TimedWorkout(2, 0)>>
    /\ output.value = [shown |-> TRUE, diffMins |-> 59, hours |-> 0, mins |-> 59]

\* -------------------------------------------------- calculateMuscleStats
\* the sum of the entries K of totalSets
RECURSIVE SumAll(_, _)
SumAll(totalSets, K) ==
    IF K = {} THEN 0
    ELSE LET k == CHOOSE x \in K : TRUE
         IN totalSets[k] + SumAll(totalSets, K \ {k})

\* faulty variant: the sets of all body parts together
SumOfTotals(totalSets) == SumAll(totalSets, DOMAIN totalSets)

\* Math.max(...Object.values(totalSets))
MaxOfTotals(totalSets) ==
    CHOOSE m \in {totalSets[b] : b \in DOMAIN totalSets} :
        \A b \in DOMAIN totalSets : totalSets[b] <= m

\* maxSets > 0 ? (sets / maxSets) * 100 : 0, as the fraction num / den
Percentage(sets, maxSets) ==
    IF maxSets > 0 THEN [num |-> sets * 100, den |-> maxSets] ELSE [num |-> 0, den |-> 1]

CalculateMuscleStats(w) ==
    IF Len(w) = 0
    THEN [b \in {} |-> 0]
    ELSE LET totalSets == CountSetsByBodyPart(w)
             maxSets == MaxOfTotals(totalSets)
         IN [b \in BodyParts |->
                [sets |-> totalSets[b],
                 percentage |-> Percentage(totalSets[b], maxSets),
                 level |-> MuscleLevel(totalSets[b]).level,
                 rank |-> MuscleLevel(totalSets[b]).rank]]

\* what the views show of a body part: muscleStats[part.name]?.sets || 0,
\* ?.percentage || 0, and level 1 Beginner without stats
StatsShown(muscleStats) ==
    [b \in BodyParts |->
        IF b \in DOMAIN muscleStats
        THEN muscleStats[b]
        ELSE [sets |-> 0, percentage |-> [num |-> 0, den |-> 1], level |-> 1,
              rank |-> "Beginner"]]

StatsInit ==
    /\ InitComponent
    /\ store = {}
    /\ input \in [workouts : WorkoutLists(MaxList)]
    /\ output = NoOutput

ShowStats ==
    /\ output = NoOutput
    /\ output' = [fn |-> "muscleStats",
                  value |-> StatsShown(CalculateMuscleStats(input.workouts))]
    /\ UNCHANGED <<component, input>>

StatsNext == ShowStats

StatsSpec == StatsInit /\ [][StatsNext]_vars

\* C23: the percentage of a body part is its total of sets divided by the
\* largest total of the 9 body parts, times 100; it is 0 for every body part
\* when all totals are 0, lies in 0..100, and is 100 for a body part with the
\* largest total when that is not 0.
C23_PercentageOfMax ==
    output.fn = "muscleStats" =>
        LET w == input.workouts
            Total(b) == SumOver({i \in DOMAIN w : w[i].bodyPart = b}, w)
            largest == CHOOSE m \in {Total(b) : b \in BodyParts} :
                            \A b \in BodyParts : Total(b) <= m
        IN \A b \in BodyParts :
            LET p == output.value[b].percentage
            IN /\ p.den > 0
               /\ IF largest = 0 THEN p.num = 0
                  ELSE p.num * largest = Total(b) * 100 * p.den
               /\ 0 <= p.num /\ p.num <= 100 * p.den
               /\ (largest > 0 /\ Total(b) = largest) => p.num = 100 * p.den

\* Biceps 3 and Legs 1: Biceps is at 100, Legs at a third of it
C23_Witness ==
    /\ output.fn = "muscleStats"
    /\ input.workouts = <<StoredWorkout(1, "Biceps", 3), StoredWorkout(2, "Legs", 1)>>
    /\ output.value["Biceps"].percentage = [num |-> 300, den |-> 3]
    /\ output.value["Legs"].percentage = [num |-> 100, den |-> 3]
    /\ output.value["Abs"].percentage = [num |-> 0, den |-> 3]

\* no record: every body part is at 0
C23_WitnessEmpty ==
    /\ output.fn = "muscleStats"
    /\ input.workouts = <<>>
    /\ \A b \in BodyParts : output.value[b].percentage.num = 0

\* ---------------------------------------------------------- progress bar
\* Math.min(100, (stats.sets % 10) * 10)
Progress(sets) ==
    LET p == (sets % 10) * 10
    IN IF p < 100 THEN p ELSE 100

ProgressInit ==
    /\ InitComponent
    /\ store = {}
    /\ input \in [sets : 0..MaxTotal]
    /\ output = NoOutput

\* the progress bar of a muscle group with that many sets
ShowProgress ==
    /\ output = NoOutput
    /\ output' = [fn |-> "progress", value |-> Progress(input.sets)]
    /\ UNCHANGED <<component, input>>

ProgressNext == ShowProgress

ProgressSpec == ProgressInit /\ [][ProgressNext]_vars

\* C29: the progress to the next level is within 0..100, and with one set
\* more it is not smaller than before unless the level is higher than before.
C29_ProgressMonotone ==
    output.fn = "progress" =>
        /\ output.value \in 0..100
        /\ input.sets > 0 =>
            \/ output.value >= Progress(input.sets - 1)
            \/ MuscleLevel(input.sets).level > MuscleLevel(input.sets - 1).level

\* ----------------------------------------------------- getRecentActivity
\* date.toDateString(): the local calendar date, here its day number
ToDateString(t, tz) == (t + tz) \div MsPerDay

\* the sets of the first n records of a list: reduce((sum, w) => sum + (w.sets || 1), 0)
RECURSIVE SetsOfFirst(_, _)
SetsOfFirst(w, n) == IF n = 0 THEN 0 ELSE SetsOfFirst(w, n - 1) + SetsOr1(w[n])

GetRecentActivity(w, today, tz) ==
    LET sevenDaysAgo == AddDays(today, 0 - RecentDays)
        Recent(workout) == DateGeq(ParseDate(workout.date), sevenDaysAgo)
        recentWorkouts == SelectSeq(w, Recent)
    IN [activeDays |->
            Cardinality({ToDateString(ParseDate(recentWorkouts[i].date).time, tz) :
                            i \in DOMAIN recentWorkouts}),
        totalSets |-> SetsOfFirst(recentWorkouts, Len(recentWorkouts)),
        totalWorkouts |-> Len(recentWorkouts),
        recentWorkouts |-> recentWorkouts]

RecentInit ==
    /\ InitComponent
    /\ store = {}
    /\ \E tz \in Timezones :
        input \in [tz : {tz}, today : {d * MsPerDay - tz : d \in RefDays},
                   workouts : DatedLists(tz)]
    /\ output = NoOutput

RecentActivity ==
    /\ output = NoOutput
    /\ output' = [fn |-> "getRecentActivity",
                  value |-> GetRecentActivity(input.workouts, input.today, input.tz)]
    /\ UNCHANGED <<component, input>>

RecentNext == RecentActivity

RecentSpec == RecentInit /\ [][RecentNext]_vars

\* C30: the recent activity counts no record dated 7 or more calendar days
\* before today, and at most 7 active days.
C30_RecentSevenDays ==
    output.fn = "getRecentActivity" =>
        LET v == output.value
            ref == LocalDay(input.today, input.tz)
        IN /\ v.activeDays <= 7
           /\ v.totalWorkouts = Len(v.recentWorkouts)
           /\ \A i \in DOMAIN v.recentWorkouts :
                LocalDay(ParseDate(v.recentWorkouts[i].date).time, input.tz) > ref - 7

\* ================================================== claims C25 .. C28
\* the saves that have been started and have neither completed nor failed
SavesInFlight == {i \in DOMAIN inflight : inflight[i].kind = "save"}

\* C25: at most one save is in flight at any time.
C25_OneFlushInFlight == Cardinality(SavesInFlight) <= 1

\* C26: the records of the collection at the moment the load delivers its
\* result are in the collection afterwards.
C26_AddBeforeLoadKept ==
    [][last'.op = "loaded" =>
         \A i \in DOMAIN workouts : \E j \in DOMAIN workouts' : workouts'[j] = workouts[i]
      ]_vars

C27_StoreEmptyAfterClear == cleared => store = {}

\* ================================================== claim C24 (liveness)
\* saveToIndexedDB: the transaction is rejected by the store itself, because
\* the collection holds two records with one id (store.add: ConstraintError)
SaveRejected ==
    /\ SaveFail
    /\ ~SaveTransaction(store, Head(inflight).data).ok

\* time passes, and IndexedDB settles a request in less time than the
\* auto-backup period: no request is open when the interval is due
LiveAdvance ==
    /\ Advance
    /\ inflight = <<>> \/ interval'.rem > 0

\* the steps of a session in which the component stays mounted and the
\* database fails no operation that it could carry out
LiveNext ==
    \/ Mount
    \/ AddWorkout
    \/ \E id \in IdsOf(workouts) : IncrementSets(id)
    \/ \E id \in IdsOf(workouts) : DecrementSets(id)
    \/ \E id \in IdsOf(workouts) : RemoveWorkout(id)
    \/ FadeFire
    \/ DeleteSaveFire
    \/ DebounceFire
    \/ IntervalFire
    \/ StatusClearFire
    \/ ClearAllWorkouts
    \/ LoadSucceed
    \/ SaveSucceed
    \/ SaveRejected
    \/ ClearSucceed
    \/ LiveAdvance

\* the event loop runs every timer that is due, time passes, and IndexedDB
\* settles every request; the user's actions are under no obligation
LiveFairness ==
    /\ WF_vars(Mount)
    /\ WF_vars(FadeFire)
    /\ WF_vars(DeleteSaveFire)
    /\ WF_vars(DebounceFire)
    /\ WF_vars(IntervalFire)
    /\ WF_vars(StatusClearFire)
    /\ WF_vars(LoadSucceed)
    /\ WF_vars(SaveSucceed)
    /\ WF_vars(SaveRejected)
    /\ WF_vars(ClearSucceed)
    /\ WF_vars(LiveAdvance)

LiveSpec == Init /\ [][LiveNext]_vars /\ LiveFairness

\* no save is pending (debounce, fade or deletion timeout) or in flight
NoFlushPending == ~InBurst /\ inflight = <<>>

Mirrored == store = RecordSet(workouts)

\* C24: once the user's mutations have stopped (they always do: a session
\* has finitely many), the store comes to hold the records of the
\* collection for good, and the component is again and again at rest with
\* no save pending or in flight (the auto-backup interval keeps saving the
\* same records every 5 minutes).
C24_Convergence == <>[]Mirrored /\ []<>(NoFlushPending /\ Mirrored)

\* the same, for the sessions in which no two records share an id
C24_ConvergenceUniqueIds ==
    <>(Cardinality(IdsOf(workouts)) # Len(workouts)) \/ C24_Convergence

====
